---- MODULE Spec2Model ----
(***************************************************************************)
(* Model of the two entry points of pico-tensile-tester-rs:                *)
(*   firmware/src/main.rs  - calibration, then a loop that polls USB and   *)
(*                           samples the load cell behind a timer gate;    *)
(*   src/main.rs           - calibration, then a loop that polls USB,      *)
(*                           samples the load cell and busy-waits.         *)
(* The HX711 driver, the USB stack and the timer are external crates: each *)
(* call into them is a nondeterministic choice over its possible results.  *)
(* Time is counted in timer ticks (microseconds), as timer.get_counter().  *)
(***************************************************************************)
EXTENDS Integers, Sequences, FiniteSets, TLC

\* ---------------------------------------------------------------- bounds
MaxTime == 300000        \* the timer is observed up to this many ticks
MaxLog  == 4             \* at most this many lines are handed to the transport
TickSteps == {50000, 100000}   \* amounts by which the timer is seen to advance
RawSamples == {1998, 2000, 2005, 2010}   \* values retrieve() may deliver
WordMargin == 12         \* 24-bit words this close to a boundary are clocked out

\* ------------------------------------------------------ program constants
CalAttempts    == 10     \* for _ in 0..10
InitialDelayMs == 100    \* first deadline: get_counter() + 100u64.millis()
PeriodMs       == 100    \* re-armed deadline: get_counter() + 100u64.millis()
TicksPerMs     == 1000   \* the RP2040 timer counts microseconds

Programs == {"firmware", "src"}

VARIABLES
  prog,        \* which of the two binaries runs
  pc,          \* position in main()
  attempt,     \* index of the calibration loop (for _ in 0..10)
  offset,      \* let mut offset
  next_read,   \* let mut next_read (firmware only)
  now,         \* the value timer.get_counter() would return
  calLog,      \* outcomes of the retrieve() calls made by calibration
  delays,      \* number of cortex_m::asm::delay(1_000_000) calls executed
  rawLog,      \* values of the successful retrieve() calls made by the loop
  handed,      \* lines handed to serial_wrapper by uwriteln!
  turn,        \* events of the current (or just completed) loop turn
  hist,        \* timer values at which calibration ended and the first
               \* deadline was armed, and those of the last completed firing
  acq,         \* the acquisition driver: word on the data line, bits clocked
  arith        \* operands and result of one `value - offset`

vars == <<prog, pc, attempt, offset, next_read, now, calLog, delays,
          rawLog, handed, turn, hist, acq, arith>>

\* ------------------------------------------------------------ pure parts
\* Result<i32, E> of load_cell.retrieve()
Err == [ok |-> FALSE, v |-> 0]
Ok(v) == [ok |-> TRUE, v |-> v]
Outcomes == {Err} \cup {Ok(v) : v \in RawSamples}

\* 100u64.millis() added to a microsecond instant
Millis(n) == n * TicksPerMs

\* the range of i32
I32Max == 2147483647
I32Min == (0 - I32Max) - 1

\* whether a - b is outside the i32 range, decided without leaving it
SubOverflows(a, b) ==
  \/ b < 0 /\ a > I32Max + b
  \/ b > 0 /\ a < I32Min + b

\* variant: the difference is kept in 24 bits
CleanValue_In24Bits(value, off) ==
  LET x == value - off IN
  IF x > 8388607 THEN x - 16777216
  ELSE IF x < 0 - 8388608 THEN x + 16777216 ELSE x

\* variant: the operands of the subtraction are exchanged
CleanValue_Swapped(value, off) == off - value

\* let clean_value = value - offset;   with value and offset of type i32.
\* Where the difference leaves the i32 range a release build wraps it (a
\* debug build panics instead); SubOverflows tells the two cases apart.
CleanValue(value, off) ==
  IF SubOverflows(value, off)
  THEN IF off < 0
       THEN ((value - I32Max) - 1) - ((off + I32Max) + 1)
       ELSE ((value + I32Max) + 1) - ((off - I32Max) - 1)
  ELSE value - off

\* variant: write_str hands the port's failure on to its caller
WriteStr_Propagates(accepted) == IF accepted THEN "Ok" ELSE "Err"

\* SerialWrapper::write_str:  let _ = self.0.write(s.as_bytes());  Ok(())
\* `accepted` is whether the serial port took the bytes
WriteStr(accepted) == "Ok"

\* decimal rendering of an i32 by ufmt's uDisplay, as a sequence of characters
Digit(d) == CASE d = 0 -> "0" [] d = 1 -> "1" [] d = 2 -> "2" [] d = 3 -> "3"
              [] d = 4 -> "4" [] d = 5 -> "5" [] d = 6 -> "6" [] d = 7 -> "7"
              [] d = 8 -> "8" [] d = 9 -> "9"

RECURSIVE Unsigned(_)
Unsigned(n) == IF n < 10 THEN <<Digit(n)>>
               ELSE Append(Unsigned(n \div 10), Digit(n % 10))

Decimal(v) == IF v < 0 THEN <<"-">> \o Unsigned(0 - v) ELSE Unsigned(v)

\* uwriteln!(serial_wrapper, "Force: {}\r", clean_value)
FormatLine(v) == [prefix |-> "Force: ", num |-> Decimal(v), term |-> "\r\n"]

\* ------------------------------------------------------- turn bookkeeping
\* `turn` lists what the loop did since it last passed the `loop {` head; a
\* turn that has reached the closing brace ends with the "end" event.
Ended(t) == t # <<>> /\ t[Len(t)].e = "end"
Log(t, ev) == IF Ended(t) THEN <<ev>> ELSE Append(t, ev)
EndTurn(t) == Append(t, [e |-> "end"])
Events(t, kind) == {i \in 1..Len(t) : t[i].e = kind}

\* timer values of the firing logged in turn t: g read by the gate, r read
\* by the reschedule statement, a at the call of retrieve()
TimeOf(t, kind) == t[CHOOSE j \in Events(t, kind) : TRUE].t
Firing(t) == [g |-> TimeOf(t, "gate"), r |-> TimeOf(t, "resched"),
              a |-> TimeOf(t, "retrieve")]
NoTime == -1
NoFiring == [g |-> NoTime, r |-> NoTime, a |-> NoTime]

\* `hist` when a new turn begins: a firing of the turn before becomes the
\* last firing, and the start-up times are dropped once a firing has used them
Rolled(h, t) ==
  IF Events(t, "retrieve") # {} /\ Events(t, "resched") # {}
     /\ Events(t, "gate") # {}
  THEN [calEnd |-> NoTime, armed |-> NoTime, last |-> Firing(t)]
  ELSE h

\* the harness variables while main() runs
AcqIdle == [word |-> 0, n |-> 0, acc |-> 0, done |-> FALSE, raw |-> 0]
ArithIdle == [value |-> 0, off |-> 0, out |-> 0, overflow |-> FALSE,
              done |-> FALSE]

LoopHead(p) == "poll"
AfterCalibration(p) == IF p = "firmware" THEN "arm" ELSE LoopHead(p)

\* ------------------------------------------------------------------ Init
InitMain ==
  /\ prog \in Programs
  /\ pc = "cal"
  /\ attempt = 0
  /\ offset = 0
  /\ next_read = 0
  /\ now = 0
  /\ calLog = <<>>
  /\ delays = 0
  /\ rawLog = <<>>
  /\ handed = <<>>
  /\ turn = <<>>
  /\ hist = [calEnd |-> NoTime, armed |-> NoTime, last |-> NoFiring]

Init ==
  /\ InitMain
  /\ acq = AcqIdle
  /\ arith = ArithIdle

\* ---------------------------------------------------------------- timer
\* the free-running timer advances between any two steps of the firmware
Tick ==
  /\ prog = "firmware"
  /\ \E d \in TickSteps :
       /\ now + d <= MaxTime
       /\ now' = now + d
  /\ UNCHANGED <<acq, arith, hist,
                 prog, pc, attempt, offset, next_read, calLog, delays,
                 rawLog, handed, turn>>

\* ---------------------------------------------------------- calibration
\* variant: the success does not leave the calibration loop
CalibrateOk_NoBreak ==
  /\ pc = "cal"
  /\ \E v \in RawSamples :
       /\ calLog' = Append(calLog, Ok(v))
       /\ offset' = v
  /\ pc' = "cal_delay"
  /\ hist' = hist
  /\ UNCHANGED <<acq, arith,
                 prog, attempt, next_read, now, delays, rawLog, handed, turn>>

\* if let Ok(reading) = load_cell.retrieve() { offset = reading; break; }
CalibrateOk ==
  /\ pc = "cal"
  /\ \E v \in RawSamples :
       /\ calLog' = Append(calLog, Ok(v))
       /\ offset' = v
  /\ pc' = AfterCalibration(prog)
  /\ hist' = [hist EXCEPT !.calEnd = now]
  /\ UNCHANGED <<acq, arith,
                 prog, attempt, next_read, now, delays, rawLog, handed, turn>>

\* variant: no delay after the last attempt
CalibrateErr_SkipsLastDelay ==
  /\ pc = "cal"
  /\ calLog' = Append(calLog, Err)
  /\ pc' = IF attempt + 1 < CalAttempts THEN "cal_delay"
           ELSE AfterCalibration(prog)
  /\ hist' = IF attempt + 1 < CalAttempts THEN hist
              ELSE [hist EXCEPT !.calEnd = now]
  /\ UNCHANGED <<acq, arith,
                 prog, attempt, offset, next_read, now, delays, rawLog,
                 handed, turn>>

\* retrieve() failed: fall through to the delay
CalibrateErr ==
  /\ pc = "cal"
  /\ calLog' = Append(calLog, Err)
  /\ pc' = "cal_delay"
  /\ UNCHANGED <<acq, arith, hist,
                 prog, attempt, offset, next_read, now, delays, rawLog,
                 handed, turn>>

\* variant: the calibration loop runs one iteration too many
CalibrateDelay_OneMore ==
  /\ pc = "cal_delay"
  /\ delays' = delays + 1
  /\ attempt' = attempt + 1
  /\ pc' = IF attempt + 1 <= CalAttempts THEN "cal" ELSE AfterCalibration(prog)
  /\ hist' = IF attempt + 1 <= CalAttempts THEN hist
              ELSE [hist EXCEPT !.calEnd = now]
  /\ UNCHANGED <<acq, arith,
                 prog, offset, next_read, now, calLog, rawLog, handed, turn>>

\* cortex_m::asm::delay(1_000_000); then the next iteration of 0..10
CalibrateDelay ==
  /\ pc = "cal_delay"
  /\ delays' = delays + 1
  /\ attempt' = attempt + 1
  /\ pc' = IF attempt + 1 < CalAttempts THEN "cal" ELSE AfterCalibration(prog)
  /\ hist' = IF attempt + 1 < CalAttempts THEN hist
              ELSE [hist EXCEPT !.calEnd = now]
  /\ UNCHANGED <<acq, arith,
                 prog, offset, next_read, now, calLog, rawLog, handed, turn>>

\* variant: the first deadline is the present moment
Arm_NoDelay ==
  /\ prog = "firmware"
  /\ pc = "arm"
  /\ next_read' = now
  /\ pc' = LoopHead(prog)
  /\ hist' = [hist EXCEPT !.armed = now]
  /\ UNCHANGED <<acq, arith,
                 prog, attempt, offset, now, calLog, delays, rawLog, handed,
                 turn>>

\* let mut next_read = timer.get_counter() + 100u64.millis();
Arm ==
  /\ prog = "firmware"
  /\ pc = "arm"
  /\ next_read' = now + Millis(InitialDelayMs)
  /\ pc' = LoopHead(prog)
  /\ hist' = [hist EXCEPT !.armed = now]
  /\ UNCHANGED <<acq, arith,
                 prog, attempt, offset, now, calLog, delays, rawLog, handed,
                 turn>>

\* ------------------------------------------- loop of firmware/src/main.rs
\* usb_dev.poll(&mut [&mut serial_wrapper.0]);   (result discarded)
FwPoll ==
  /\ prog = "firmware"
  /\ pc = "poll"
  /\ \E moved \in BOOLEAN :
       turn' = Log(turn, [e |-> "poll", moved |-> moved])
  /\ pc' = "gate"
  /\ hist' = Rolled(hist, turn)
  /\ UNCHANGED <<acq, arith,
                 prog, attempt, offset, next_read, now, calLog, delays,
                 rawLog, handed>>

\* variant: an idle gate jumps back to the gate, past the poll
FwGateIdle_SkipsPoll ==
  /\ prog = "firmware"
  /\ pc = "gate"
  /\ ~(now >= next_read)
  /\ turn' = EndTurn(Log(turn, [e |-> "gate", t |-> now, d |-> next_read]))
  /\ pc' = "gate"
  /\ UNCHANGED <<acq, arith, hist,
                 prog, attempt, offset, next_read, now, calLog, delays,
                 rawLog, handed>>

\* if timer.get_counter() >= next_read   is false: the turn is over
FwGateIdle ==
  /\ prog = "firmware"
  /\ pc = "gate"
  /\ ~(now >= next_read)
  /\ turn' = EndTurn(Log(turn, [e |-> "gate", t |-> now, d |-> next_read]))
  /\ pc' = LoopHead(prog)
  /\ UNCHANGED <<acq, arith, hist,
                 prog, attempt, offset, next_read, now, calLog, delays,
                 rawLog, handed>>

\* variant: the body runs without the timer comparison
FwGateFire_Ungated ==
  /\ prog = "firmware"
  /\ pc = "gate"
  /\ turn' = Log(turn, [e |-> "gate", t |-> now, d |-> next_read])
  /\ pc' = "resched"
  /\ UNCHANGED <<acq, arith, hist,
                 prog, attempt, offset, next_read, now, calLog, delays,
                 rawLog, handed>>

\* variant: the gate opens only at the very tick of the deadline
FwGateFire_ExactTick ==
  /\ prog = "firmware"
  /\ pc = "gate"
  /\ now = next_read
  /\ turn' = Log(turn, [e |-> "gate", t |-> now, d |-> next_read])
  /\ pc' = "resched"
  /\ UNCHANGED <<acq, arith, hist,
                 prog, attempt, offset, next_read, now, calLog, delays,
                 rawLog, handed>>

\* variant: the gate opens one period before the deadline
FwGateFire_Early ==
  /\ prog = "firmware"
  /\ pc = "gate"
  /\ now + Millis(PeriodMs) >= next_read
  /\ turn' = Log(turn, [e |-> "gate", t |-> now, d |-> next_read])
  /\ pc' = "resched"
  /\ UNCHANGED <<acq, arith, hist,
                 prog, attempt, offset, next_read, now, calLog, delays,
                 rawLog, handed>>

\* if timer.get_counter() >= next_read   is true: enter the body
FwGateFire ==
  /\ prog = "firmware"
  /\ pc = "gate"
  /\ now >= next_read
  /\ turn' = Log(turn, [e |-> "gate", t |-> now, d |-> next_read])
  /\ pc' = "resched"
  /\ UNCHANGED <<acq, arith, hist,
                 prog, attempt, offset, next_read, now, calLog, delays,
                 rawLog, handed>>

\* variant: the deadline is advanced from the old deadline
FwReschedule_FromDeadline ==
  /\ prog = "firmware"
  /\ pc = "resched"
  /\ next_read' = next_read + Millis(PeriodMs)
  /\ turn' = Log(turn, [e |-> "resched", t |-> now, old |-> next_read])
  /\ pc' = "sample"
  /\ UNCHANGED <<acq, arith, hist,
                 prog, attempt, offset, now, calLog, delays, rawLog, handed>>

\* next_read = timer.get_counter() + 100u64.millis();
FwReschedule ==
  /\ prog = "firmware"
  /\ pc = "resched"
  /\ next_read' = now + Millis(PeriodMs)
  /\ turn' = Log(turn, [e |-> "resched", t |-> now, old |-> next_read])
  /\ pc' = "sample"
  /\ UNCHANGED <<acq, arith, hist,
                 prog, attempt, offset, now, calLog, delays, rawLog, handed>>

\* if let Ok(value) = load_cell.retrieve() {
\*     let clean_value = value - offset;
\*     let _ = uwriteln!(serial_wrapper, "Force: {}\r", clean_value); }
\* `accepted` is whether the serial port took the bytes; write_str hides it.
FwSampleOk ==
  /\ prog = "firmware"
  /\ pc = "sample"
  /\ Len(handed) < MaxLog
  /\ \E value \in RawSamples, accepted \in BOOLEAN :
       LET line == FormatLine(CleanValue(value, offset)) IN
       /\ rawLog' = Append(rawLog, value)
       /\ handed' = Append(handed, line)
       /\ turn' = EndTurn(Log(Log(turn, [e |-> "retrieve", r |-> Ok(value),
                                         t |-> now]),
                              [e |-> "write", line |-> line,
                               accepted |-> accepted,
                               res |-> WriteStr(accepted)]))
  /\ pc' = LoopHead(prog)
  /\ UNCHANGED <<acq, arith, hist,
                 prog, attempt, offset, next_read, now, calLog, delays>>

\* variant: a failed acquisition puts the old deadline back
FwSampleErr_KeepsDeadline ==
  /\ prog = "firmware"
  /\ pc = "sample"
  /\ turn' = EndTurn(Log(turn, [e |-> "retrieve", r |-> Err, t |-> now]))
  /\ next_read' = turn[CHOOSE j \in Events(turn, "resched") : TRUE].old
  /\ pc' = LoopHead(prog)
  /\ UNCHANGED <<acq, arith, hist,
                 prog, attempt, offset, now, calLog, delays, rawLog, handed>>

\* variant: a failed acquisition is tried again at once
FwSampleErr_Retries ==
  /\ prog = "firmware"
  /\ pc = "sample"
  /\ turn' = Log(turn, [e |-> "retrieve", r |-> Err, t |-> now])
  /\ pc' = "sample"
  /\ UNCHANGED <<acq, arith, hist,
                 prog, attempt, offset, next_read, now, calLog, delays,
                 rawLog, handed>>

\* retrieve() returned Err: the if-let body is skipped
FwSampleErr ==
  /\ prog = "firmware"
  /\ pc = "sample"
  /\ turn' = EndTurn(Log(turn, [e |-> "retrieve", r |-> Err, t |-> now]))
  /\ pc' = LoopHead(prog)
  /\ UNCHANGED <<acq, arith, hist,
                 prog, attempt, offset, next_read, now, calLog, delays,
                 rawLog, handed>>

\* --------------------------------------------------- loop of src/main.rs
\* if usb_dev.poll(&mut [&mut serial_wrapper.0]) { }
SrcPoll ==
  /\ prog = "src"
  /\ pc = "poll"
  /\ \E moved \in BOOLEAN :
       turn' = Log(turn, [e |-> "poll", moved |-> moved])
  /\ pc' = "sample"
  /\ UNCHANGED <<acq, arith, hist,
                 prog, attempt, offset, next_read, now, calLog, delays,
                 rawLog, handed>>

\* variant: every successful sample becomes the new zero
SrcSampleOk_Rezero ==
  /\ prog = "src"
  /\ pc = "sample"
  /\ Len(handed) < MaxLog
  /\ \E value \in RawSamples, accepted \in BOOLEAN :
       LET line == FormatLine(CleanValue(value, offset)) IN
       /\ rawLog' = Append(rawLog, value)
       /\ handed' = Append(handed, line)
       /\ offset' = value
       /\ turn' = Log(Log(turn, [e |-> "retrieve", r |-> Ok(value)]),
                      [e |-> "write", line |-> line, accepted |-> accepted,
                       res |-> WriteStr(accepted)])
  /\ pc' = "delay"
  /\ UNCHANGED <<acq, arith, hist,
                 prog, attempt, next_read, now, calLog, delays>>

\* match load_cell.retrieve() { Ok(value) => { clean_value; uwriteln!(..) } }
SrcSampleOk ==
  /\ prog = "src"
  /\ pc = "sample"
  /\ Len(handed) < MaxLog
  /\ \E value \in RawSamples, accepted \in BOOLEAN :
       LET line == FormatLine(CleanValue(value, offset)) IN
       /\ rawLog' = Append(rawLog, value)
       /\ handed' = Append(handed, line)
       /\ turn' = Log(Log(turn, [e |-> "retrieve", r |-> Ok(value)]),
                      [e |-> "write", line |-> line, accepted |-> accepted,
                       res |-> WriteStr(accepted)])
  /\ pc' = "delay"
  /\ UNCHANGED <<acq, arith, hist,
                 prog, attempt, offset, next_read, now, calLog, delays>>

\* variant: a failed acquisition still prints a line
SrcSampleErr_WritesLine ==
  /\ prog = "src"
  /\ pc = "sample"
  /\ Len(handed) < MaxLog
  /\ handed' = Append(handed, FormatLine(0))
  /\ turn' = Log(turn, [e |-> "retrieve", r |-> Err])
  /\ pc' = "delay"
  /\ UNCHANGED <<acq, arith, hist,
                 prog, attempt, offset, next_read, now, calLog, delays,
                 rawLog>>

\* match load_cell.retrieve() { Err(_) => { } }
SrcSampleErr ==
  /\ prog = "src"
  /\ pc = "sample"
  /\ turn' = Log(turn, [e |-> "retrieve", r |-> Err])
  /\ pc' = "delay"
  /\ UNCHANGED <<acq, arith, hist,
                 prog, attempt, offset, next_read, now, calLog, delays,
                 rawLog, handed>>

\* cortex_m::asm::delay(13_300_000);   then back to the loop head
SrcDelay ==
  /\ prog = "src"
  /\ pc = "delay"
  /\ turn' = EndTurn(Log(turn, [e |-> "delay"]))
  /\ pc' = LoopHead(prog)
  /\ UNCHANGED <<acq, arith, hist,
                 prog, attempt, offset, next_read, now, calLog, delays,
                 rawLog, handed>>

\* ------------------------------------------------------------------ Next
Next ==
  \/ Tick
  \/ CalibrateOk \/ CalibrateErr \/ CalibrateDelay \/ Arm
  \/ FwPoll \/ FwGateIdle \/ FwGateFire \/ FwReschedule
  \/ FwSampleOk \/ FwSampleErr
  \/ SrcPoll \/ SrcSampleOk \/ SrcSampleErr \/ SrcDelay

Spec == Init /\ [][Next]_vars

\* ------------------------------------------------------------ type check
LoopPcs == {"poll", "gate", "resched", "sample", "delay"}

\* ------------------------------------------------- acquisition driver
\* The driver behind load_cell.retrieve() is not part of the sources; its
\* bit clock-out and sign extension follow section 4.1 of the specification.
WordBits == 24
RECURSIVE Pow2(_)
Pow2(n) == IF n = 0 THEN 1 ELSE 2 * Pow2(n - 1)

\* the words the converter is made to hold: around 0x000000, 0x7FFFFF,
\* 0x800000 and 0xFFFFFF
Words ==
  (0..WordMargin)
  \cup ((Pow2(WordBits - 1) - 1 - WordMargin)..(Pow2(WordBits - 1) + WordMargin))
  \cup ((Pow2(WordBits) - 1 - WordMargin)..(Pow2(WordBits) - 1))

\* the level of the data line while bit number k (0 = first, most
\* significant) of word w is clocked out
DataBit(w, k) == (w \div Pow2(WordBits - 1 - k)) % 2

\* variant: the word is widened without looking at bit 23
SignExtend_ZeroExtends(w) == w

\* step 4: if bit 23 is set, subtract 2^24
SignExtend(w) == IF (w \div Pow2(WordBits - 1)) % 2 = 1
                 THEN w - Pow2(WordBits) ELSE w

InitAcq ==
  /\ InitMain
  /\ prog = "firmware"
  /\ acq \in {[AcqIdle EXCEPT !.word = w] : w \in Words}
  /\ arith = ArithIdle

\* step 2: one clock pulse, the sampled bit is shifted into the word
AcqClockBit ==
  /\ ~acq.done
  /\ acq.n < WordBits
  /\ acq' = [acq EXCEPT !.acc = 2 * @ + DataBit(acq.word, acq.n),
                        !.n = @ + 1]
  /\ UNCHANGED <<prog, pc, attempt, offset, next_read, now, calLog, delays,
                 rawLog, handed, turn, hist, arith>>

\* step 4: after the last bit the word is sign-extended and returned
AcqReturn ==
  /\ ~acq.done
  /\ acq.n = WordBits
  /\ acq' = [acq EXCEPT !.raw = SignExtend(acq.acc), !.done = TRUE]
  /\ UNCHANGED <<prog, pc, attempt, offset, next_read, now, calLog, delays,
                 rawLog, handed, turn, hist, arith>>

NextAcq == AcqClockBit \/ AcqReturn

SpecAcq == InitAcq /\ [][NextAcq]_vars

\* ------------------------------------------------- the subtraction alone
\* RawSample is a 24-bit two's-complement integer
I24Max == 8388607
I24Min == (0 - I24Max) - 1

\* samples at the ends and in the middle of the signed 24-bit range
EdgeSamples ==
  (I24Min..(I24Min + WordMargin))
  \cup ((0 - WordMargin)..WordMargin)
  \cup ((I24Max - WordMargin)..I24Max)
  \cup RawSamples

InitSub ==
  /\ InitMain
  /\ prog = "firmware"
  /\ acq = AcqIdle
  /\ \E off \in EdgeSamples \cup {0} :
       arith = [ArithIdle EXCEPT !.off = off]

\* one loop acquisition delivers `value`; clean_value is computed from it
SubSample ==
  /\ \E value \in EdgeSamples :
       arith' = [value |-> value, off |-> arith.off,
                 out |-> CleanValue(value, arith.off),
                 overflow |-> SubOverflows(value, arith.off),
                 done |-> TRUE]
  /\ UNCHANGED <<prog, pc, attempt, offset, next_read, now, calLog, delays,
                 rawLog, handed, turn, hist, acq>>

NextSub == SubSample

SpecSub == InitSub /\ [][NextSub]_vars

\* ------------------------------------------- the firmware, running fairly
InitFw == Init /\ prog = "firmware"

\* one statement of main() in firmware/src/main.rs
FwStep ==
  \/ CalibrateOk \/ CalibrateErr \/ CalibrateDelay \/ Arm
  \/ FwPoll \/ FwGateIdle \/ FwGateFire \/ FwReschedule
  \/ FwSampleOk \/ FwSampleErr

NextFw == Tick \/ FwStep

\* every call returns and main() goes on (FwStep); the timer keeps counting
\* for as long as it is observed (Tick)
SpecFwFair == InitFw /\ [][NextFw]_vars /\ WF_vars(FwStep) /\ WF_vars(Tick)

\* a deadline the timer is still seen to reach
WithinHorizon(d) == \E s \in TickSteps : d + s <= MaxTime

TypeOK ==
  /\ prog \in Programs
  /\ pc \in {"cal", "cal_delay", "arm"} \cup LoopPcs
  /\ attempt \in 0..CalAttempts
  /\ offset \in RawSamples \cup {0}
  /\ now \in 0..MaxTime
  /\ Len(handed) <= MaxLog
  /\ Len(rawLog) = Len(handed)

\* ------------------------------------------------- reading the turn log
\* reading back the number printed in a line
DigitVal(c) == CASE c = "0" -> 0 [] c = "1" -> 1 [] c = "2" -> 2 [] c = "3" -> 3
                 [] c = "4" -> 4 [] c = "5" -> 5 [] c = "6" -> 6 [] c = "7" -> 7
                 [] c = "8" -> 8 [] c = "9" -> 9

RECURSIVE ParseUnsigned(_)
ParseUnsigned(s) == IF s = <<>> THEN 0
                    ELSE ParseUnsigned(SubSeq(s, 1, Len(s) - 1)) * 10
                         + DigitVal(s[Len(s)])

ParseDecimal(s) == IF s[1] = "-" THEN 0 - ParseUnsigned(Tail(s))
                   ELSE ParseUnsigned(s)

CalibrationOver == pc \notin {"cal", "cal_delay"}

\* =================================================================== C1
\* C1: every loop turn starts with the USB poll and contains exactly one
\* poll: once the loop body is past its head the current turn is open and
\* its first event is the poll, whatever the turns before it did.
C1_PollEveryTurn ==
  /\ pc \in LoopPcs \ {"poll"} => turn # <<>> /\ ~Ended(turn)
  /\ pc = "poll" => turn = <<>> \/ Ended(turn)
  /\ turn # <<>> => turn[1].e = "poll" /\ Cardinality(Events(turn, "poll")) = 1

\* a later turn of the firmware has polled although the deadline is not reached
C1_Witness ==
  /\ prog = "firmware" /\ pc = "gate" /\ now < next_read
  /\ Len(handed) >= 1
  /\ turn = <<[e |-> "poll", moved |-> FALSE]>>

\* =================================================================== C2
\* C2: in the firmware loop the body of the gate (reschedule, retrieve,
\* write) runs only in a turn whose gate read a timer value >= next_read;
\* a turn whose gate read a smaller value ends there, with next_read as it
\* was and nothing acquired or written.
C2_GateOnlyWhenDue ==
  prog = "firmware" =>
    \A i \in 1..Len(turn) :
      /\ turn[i].e \in {"resched", "retrieve", "write"} =>
           \E j \in 1..(i - 1) : turn[j].e = "gate" /\ turn[j].t >= turn[j].d
      /\ (turn[i].e = "gate" /\ turn[i].t < turn[i].d) =>
           /\ Len(turn) = i + 1 /\ turn[i + 1].e = "end"
           /\ next_read = turn[i].d
           /\ pc = "poll"

\* a turn ended at a gate that was not yet due, after an earlier firing
C2_Witness ==
  /\ prog = "firmware" /\ Ended(turn) /\ Len(rawLog) >= 1
  /\ \E i \in Events(turn, "gate") : turn[i].t < turn[i].d /\ turn[i].t > 0

\* =================================================================== C3
\* C3: a firing of the gate moves next_read forward exactly once, whether
\* retrieve() then succeeds or fails: a turn with a retrieve has exactly one
\* reschedule before it, and next_read is greater than it was at the gate.
C3_FiringAdvancesDeadline ==
  prog = "firmware" =>
    \A i \in Events(turn, "retrieve") :
      /\ Cardinality(Events(turn, "resched")) = 1
      /\ \A j \in Events(turn, "resched") : j < i /\ next_read > turn[j].old

\* a firing whose acquisition failed
C3_Witness ==
  /\ prog = "firmware"
  /\ \E i \in Events(turn, "retrieve") : ~turn[i].r.ok
  /\ \E j \in Events(turn, "resched") : next_read > turn[j].old /\ turn[j].old > 0
\* =================================================================== C4
\* C4 as stated: after a firing the new deadline is the old deadline plus
\* the period, however late the gate fired.
C4_DeadlineFromOldDeadline ==
  prog = "firmware" =>
    \A j \in Events(turn, "resched") :
      next_read = turn[j].old + Millis(PeriodMs)

\* C4 (amended): after a firing the new deadline is the timer value read by
\* the reschedule statement plus the period; it is never earlier than the
\* old deadline plus the period.
C4_DeadlineFromNow ==
  prog = "firmware" =>
    \A j \in Events(turn, "resched") :
      /\ next_read = turn[j].t + Millis(PeriodMs)
      /\ next_read >= turn[j].old + Millis(PeriodMs)

\* a firing that came late: the timer had passed the old deadline
C4_Witness ==
  /\ prog = "firmware"
  /\ \E j \in Events(turn, "resched") :
       /\ turn[j].t > turn[j].old
       /\ next_read > turn[j].old + Millis(PeriodMs)

\* =================================================================== C5
\* C5: calibration stops at its first successful retrieve(): a success in
\* the calibration log is its last entry, calibration is then over, and the
\* offset is the value of that success, for as long as the program runs.
C5_FirstSuccessWins ==
  \A k \in 1..Len(calLog) :
    calLog[k].ok =>
      /\ k = Len(calLog)
      /\ k <= CalAttempts
      /\ CalibrationOver
      /\ offset = calLog[k].v

\* fail, fail, success: offset is the third outcome, three calls were made
C5_Witness ==
  /\ pc \in LoopPcs
  /\ calLog = <<Err, Err, Ok(2005)>>
  /\ offset = 2005
  /\ Len(rawLog) >= 1

\* =================================================================== C6
\* C6: when every calibration attempt fails, exactly CalAttempts calls are
\* made, the offset stays 0 and the program goes on to the loop; calibration
\* never makes more than CalAttempts calls.
C6_TotalFailureFallsBack ==
  /\ Len(calLog) <= CalAttempts
  /\ (CalibrationOver /\ \A k \in 1..Len(calLog) : ~calLog[k].ok) =>
       /\ Len(calLog) = CalAttempts
       /\ offset = 0
       /\ pc \in LoopPcs \cup {"arm"}

\* ten failures, then the loop runs and transmits with offset 0
C6_Witness ==
  /\ Len(calLog) = CalAttempts
  /\ \A k \in 1..Len(calLog) : ~calLog[k].ok
  /\ offset = 0
  /\ pc \in LoopPcs
  /\ Len(handed) >= 1

\* =================================================================== C7
\* C7: once calibration is over no step changes the offset.
C7_OffsetImmutable == [][CalibrationOver => offset' = offset]_vars

\* the loop has transmitted twice with a learned offset
C7_Witness ==
  /\ pc \in LoopPcs
  /\ offset # 0
  /\ Len(handed) >= 2
  /\ rawLog[1] # offset /\ rawLog[2] # offset

\* =================================================================== C8
\* C8: a line is handed to the transport exactly for the successful loop
\* acquisitions: a turn whose retrieve() failed has no write, a turn whose
\* retrieve() succeeded has exactly one write, right after it, of a
\* "Force: " line; so there are as many lines as successful acquisitions.
C8_LineIffSuccess ==
  /\ Len(handed) = Len(rawLog)
  /\ \A i \in Events(turn, "retrieve") :
       IF turn[i].r.ok
       THEN /\ Events(turn, "write") = {i + 1}
            /\ turn[i + 1].line.prefix = "Force: "
            /\ turn[i + 1].line = handed[Len(handed)]
       ELSE Events(turn, "write") = {}

\* a failed acquisition after a successful one: still one line
C8_Witness ==
  /\ Len(handed) = 1
  /\ \E i \in Events(turn, "retrieve") : ~turn[i].r.ok

\* =================================================================== C9
\* C9: the number printed in the i-th line handed to the transport is the
\* i-th successful loop sample minus the offset.
C9_ReadingIsRawMinusOffset ==
  CalibrationOver =>
    \A i \in 1..Len(handed) :
      ParseDecimal(handed[i].num) = rawLog[i] - offset

\* calibration sample 2000, then 2000, 2005, 1998, 2010 give 0, 5, -2, 10
C9_Witness ==
  /\ calLog = <<Ok(2000)>>
  /\ rawLog = <<2000, 2005, 1998, 2010>>
  /\ [i \in 1..Len(handed) |-> handed[i].num]
       = <<(<<"0">>), (<<"5">>), (<<"-", "2">>), (<<"1", "0">>)>>

\* ================================================================== C10
FwLoopStep ==
  FwPoll \/ FwGateIdle \/ FwGateFire \/ FwReschedule \/ FwSampleOk \/ FwSampleErr

\* C10: the firmware loop never stops and never retries: a turn holds at
\* most one retrieve(), after a retrieve() the turn is over and the loop is
\* at its head where the poll is the next step, and in every loop state some
\* step of the loop can be taken.
C10_NoTerminalNoRetry ==
  prog = "firmware" =>
    /\ pc \in LoopPcs => ENABLED FwLoopStep
    /\ Cardinality(Events(turn, "retrieve")) <= 1
    /\ \A i \in Events(turn, "retrieve") :
         Ended(turn) /\ pc = "poll" /\ ENABLED FwPoll

\* back at the loop head after a failed acquisition that followed two lines
C10_Witness ==
  /\ prog = "firmware" /\ pc = "poll" /\ Ended(turn)
  /\ \E i \in Events(turn, "retrieve") : ~turn[i].r.ok
  /\ Len(rawLog) >= 2
\* ================================================================== C11
\* C11: write_str returns Ok(()) whether or not the serial port took the
\* bytes, and a refused write leaves no trace: the turn goes on exactly as
\* after an accepted write, the line written in a turn is always the line
\* of that turn's own sample (nothing older is sent again), and a turn
\* without a successful sample writes nothing at all.
C11_TransportFailureNonFatal ==
  /\ \A i \in Events(turn, "write") :
       /\ turn[i].res = "Ok"
       /\ i > 1 /\ turn[i - 1].e = "retrieve" /\ turn[i - 1].r.ok
       /\ turn[i].line = FormatLine(turn[i - 1].r.v - offset)
       /\ Events(turn, "write") = {i}
       /\ pc = IF prog = "firmware" THEN "poll"
               ELSE IF Ended(turn) THEN "poll" ELSE "delay"
       /\ prog = "firmware" => Ended(turn)
  /\ Len(handed) = Len(rawLog)

\* the port refused the line of the second sample and the loop is back at
\* its head
C11_Witness ==
  /\ pc = "poll" /\ Len(handed) >= 2
  /\ \E i \in Events(turn, "write") : ~turn[i].accepted /\ turn[i].res = "Ok"
\* ================================================================== C12
\* C12: a loop turn consists of the transport poll and the deadline-gated
\* sampling only: every retrieve() of a turn comes after a gate of that
\* turn that found the deadline reached, and no turn contains a busy-wait
\* delay. Stated for the loops of both binaries.
C12_TwoNonBlockingChecksOnly ==
  \A i \in 1..Len(turn) :
    /\ turn[i].e # "delay"
    /\ turn[i].e = "retrieve" =>
         \E j \in 1..(i - 1) : turn[j].e = "gate" /\ turn[j].t >= turn[j].d
\* ================================================================== C13
\* C13: the sample returned for a 24-bit word W clocked out of the
\* converter is W - 2^24 when bit 23 of W is set and W otherwise, and lies
\* in [-2^23, 2^23 - 1].
C13_SignExtension ==
  acq.done =>
    /\ acq.raw = IF acq.word >= 8388608 THEN acq.word - 16777216 ELSE acq.word
    /\ acq.raw >= -8388608 /\ acq.raw <= 8388607

\* the word 0x800000 has been returned as -2^23
C13_Witness == acq.done /\ acq.word = 8388608 /\ acq.raw = -8388608
\* ================================================================== C17
\* C17: for a sample and an offset in the signed 24-bit range (or offset 0)
\* value - offset does not overflow i32: the computed clean_value is the
\* exact difference and lies in [-(2^24 - 1), 2^24 - 1].
C17_SubtractionExact ==
  arith.done =>
    /\ ~arith.overflow
    /\ arith.out = arith.value - arith.off
    /\ arith.out >= 0 - 16777215 /\ arith.out <= 16777215

\* the largest difference: sample 2^23 - 1 with offset -2^23
C17_Witness ==
  /\ arith.done
  /\ arith.value = 8388607 /\ arith.off = 0 - 8388608
  /\ arith.out = 16777215
C16_CalibrationPrecedesLoop ==
  /\ ~CalibrationOver =>
       /\ turn = <<>> /\ handed = <<>> /\ rawLog = <<>>
       /\ hist.armed = NoTime /\ hist.last = NoFiring
  /\ prog = "firmware" =>
       /\ hist.armed # NoTime =>
            /\ hist.calEnd # NoTime /\ hist.armed >= hist.calEnd
            /\ Events(turn, "resched") = {} =>
                 next_read = hist.armed + Millis(InitialDelayMs)
       /\ pc \in LoopPcs /\ hist.last = NoFiring => hist.armed # NoTime
       /\ hist.calEnd # NoTime =>
            \A i \in Events(turn, "retrieve") \cup Events(turn, "resched") :
              turn[i].t >= hist.calEnd + Millis(InitialDelayMs)

\* all ten attempts failed, time passed, and the first loop acquisition ran
C16_Witness ==
  /\ prog = "firmware"
  /\ Len(calLog) = CalAttempts /\ ~calLog[CalAttempts].ok
  /\ hist.calEnd > 0 /\ hist.last = NoFiring
  /\ Events(turn, "retrieve") # {}

\* ================================================================== C18
\* C18: the settling delay runs after every failed calibration attempt and
\* never after the successful one: before attempt number k+1 there have
\* been k failures and k delays, a success at attempt k leaves k - 1
\* delays, and ten failures leave ten delays before the loop starts.
C18_DelayAfterEachFailure ==
  /\ pc = "cal" => delays = Len(calLog) /\ attempt = Len(calLog)
  /\ pc = "cal_delay" => delays = Len(calLog) - 1 /\ ~calLog[Len(calLog)].ok
  /\ CalibrationOver =>
       IF calLog[Len(calLog)].ok
       THEN delays = Len(calLog) - 1
       ELSE delays = CalAttempts /\ Len(calLog) = CalAttempts

\* ten failures and ten delays, the loop has begun
C18_Witness ==
  /\ pc = "gate" /\ delays = CalAttempts
  /\ \A k \in 1..Len(calLog) : ~calLog[k].ok
\* ================================================================== C15
\* C15: the sampling task keeps firing: whenever the loop waits for a
\* deadline that the timer is still seen to reach, the gate eventually
\* fires for it, and every firing makes its acquisition attempt and ends
\* its turn, whatever the acquisitions and writes before it did.
C15_DeadlineEventuallyFires ==
  /\ (prog = "firmware" /\ pc \in {"poll", "gate"}
        /\ WithinHorizon(next_read))
       ~> (pc = "resched")
  /\ (prog = "firmware" /\ pc \in {"resched", "sample"})
       ~> (pc = "poll" /\ Ended(turn) /\ Events(turn, "retrieve") # {})

\* the loop waits for a re-armed deadline after a failed acquisition
C15_Witness ==
  /\ prog = "firmware" /\ pc = "gate" /\ now < next_read
  /\ WithinHorizon(next_read)
  /\ hist.last # NoFiring
  /\ Len(rawLog) = 0
====
